---- MODULE Spec2Model ----
(***************************************************************************)
(* Token-based authentication and session lifecycle of the user service:   *)
(* the Redis-backed session store (internal/user/repository.go), the       *)
(* login / token validation service (internal/user/auth_service.go) and    *)
(* the JWT helpers (internal/utils).                                        *)
(*                                                                         *)
(* Time is counted in ticks; TicksPerSec ticks make one second, so that    *)
(* the whole-second precision of RFC3339 timestamps and of the JWT "exp"   *)
(* claim is visible.  Every call to the external store is one step of the  *)
(* calling request; the clock may advance between any two steps.           *)
(***************************************************************************)
EXTENDS Integers, Sequences, FiniteSets, TLC

\* ------------------------------------------------------------------ bounds
TicksPerSec == 2        \* clock resolution: ticks per second
StartTime == 2          \* clock value in the initial state (ticks)
MaxTime == 5            \* the clock stops advancing here (ticks)
MaxOffset == 2          \* a session passed to CreateSession expires at most this many ticks ahead
TokenExpiration == 2    \* AuthServiceConfig.TokenExpiration (ticks)

\* ------------------------------------------------------- program constants
ZeroTime == 0           \* the zero time.Time
Week == 4               \* time.Hour * 24 * 7 of GenerateToken, scaled to ticks

\* ---------------------------------------------------------------- domains
Procs == {"r1", "r2"}                 \* requests that may be in service at once
UserIds == {"u1", "u2"}
NoUser == ""
NoText == -1            \* a timestamp text that time.Parse rejects (the empty string)
NoTTL == -1             \* the key has no expiry set

ActiveUsersRK == "active_users"
UserSessionRK(userId) == <<"session:", userId>>

\* error values, by the message the caller receives
NoErr == ""
ErrAlreadyExpired == "session already expired"
ErrStoreSession == "failed to store session in Redis"
ErrSetExpiration == "failed to set session expiration"
ErrActiveUsers == "failed to add user to active users set"
ErrGetSessionData == "failed to get session data"
ErrSessionNotFound == "session not found for user"
ErrSessionExpired == "session has expired"

\* ------------------------------------------------------------ UserSession
UserSession(id, userId, tokenHash, userAgent, ip, expiresAt, createdAt, updatedAt) ==
    [ID |-> id, UserID |-> userId, TokenHash |-> tokenHash, UserAgent |-> userAgent,
     IP |-> ip, ExpiresAt |-> expiresAt, CreatedAt |-> createdAt, UpdatedAt |-> updatedAt]

\* a token in place of a token string: the empty record is the empty string
NoToken == [alg |-> "", key |-> "", claims |-> [c \in {} |-> NoText]]

NoSession == UserSession("", NoUser, NoToken, "", "", ZeroTime, ZeroTime, ZeroTime)

\* ---------------------------------------------------- time.RFC3339 texts
\* Format keeps whole seconds only; the text is modelled by its number of seconds.
FormatRFC3339(t) == t \div TicksPerSec

ParseRFC3339(text) ==
    IF text >= 0 THEN [ok |-> TRUE, t |-> text * TicksPerSec]
                 ELSE [ok |-> FALSE, t |-> ZeroTime]

\* ------------------------------------------------------------------ state
VARIABLES
    now,            \* time.Now(), in ticks
    hash,           \* Redis hashes: session key -> (field -> value); empty = no key
    expiry,         \* Redis key expiry: session key -> absolute tick of eviction, or NoTTL
    activeUsers,    \* the Redis set at ActiveUsersRK
    pc,             \* per request: where the handler stands
    local,          \* per request: the handler's local variables
    held,           \* the bearer token the client last received
    hist,           \* the last two completed calls, most recent first
    procs,          \* the requests the server serves concurrently
    faulty          \* whether calls to the store may fail

store == <<hash, expiry, activeUsers>>
vars == <<now, hash, expiry, activeUsers, pc, local, held, hist, procs, faulty>>

SessionKeys == {UserSessionRK(u) : u \in UserIds}
FieldNames == {"user_id", "user_agent", "ip", "expires_at", "created_at", "updated_at"}
EmptyHash == [f \in {} |-> NoText]

\* --------------------------------------------------- the external store
\* (faulty variant) HSETNX in place of HSET: a field that exists keeps its value
RedisHSet_KeepsExisting(h, key, fields) ==
    [h EXCEPT ![key] = [f \in DOMAIN fields \cup DOMAIN @ |->
                            IF f \in DOMAIN @ THEN @[f] ELSE fields[f]]]

\* HSET key field value [field value ...]: sets the given fields, keeps the others
\* and the key's expiry.
RedisHSet(h, key, fields) ==
    [h EXCEPT ![key] = [f \in DOMAIN fields \cup DOMAIN @ |->
                            IF f \in DOMAIN fields THEN fields[f] ELSE @[f]]]

\* (faulty variant) the expiry is not set
RedisExpire_Nothing(x, h, key, ttl, t) == x

\* EXPIRE key ttl: sets the expiry of an existing key; no effect on a missing key.
RedisExpire(x, h, key, ttl, t) ==
    IF DOMAIN h[key] = {} THEN x ELSE [x EXCEPT ![key] = t + ttl]

\* (faulty variant) the member is not added
RedisSAdd_Nothing(set, member) == set

\* SADD key member
RedisSAdd(set, member) == set \cup {member}

\* HGETALL key: every field of the hash, the empty map for a missing key.
RedisHGetAll(h, key) == h[key]

\* (faulty variant) the delete misses the key
RedisDelHash_MissesKey(h, key) == h

\* DEL key: removes the key, and with it its expiry.
RedisDelHash(h, key) == [h EXCEPT ![key] = EmptyHash]
RedisDelExpiry(x, key) == [x EXCEPT ![key] = NoTTL]

\* Keys whose expiry has been reached at time t are evicted by the store.
Evicted(x, t) == {k \in SessionKeys : x[k] # NoTTL /\ x[k] <= t}

\* outcomes of one call to the store: it succeeds, or (faulty store) fails
Outcomes == IF faulty THEN BOOLEAN ELSE {TRUE}

\* ------------------------------------------------------- calls and results
\* What is remembered of a call: the operation, the user and the token it is
\* about, what it did to the hash of the user ("none": nothing, "new": a record
\* written where there was none, "same": the record there written again, "over":
\* another record of the user replaced, "del": the expired record deleted,
\* "del failed": the delete of the expired record failed and was logged) and,
\* once it has returned (at t1), the error and the values it returned.  The
\* session of a CreateSession call is the caller's session object as the call
\* left it, also when the call failed.
Call(op, user, token) ==
    [op |-> op, user |-> user, token |-> token, wrote |-> "none", t1 |-> ZeroTime,
     err |-> NoErr, session |-> NoSession, sub |-> NoUser]

NoCall == Call("", NoUser, NoToken)

NoLocal == [call |-> NoCall, session |-> NoSession, ttl |-> 0, data |-> EmptyHash]

Idle(p) == p \in procs /\ pc[p] = "idle"

\* hist keeps the two most recent completed calls
Remember(h, entry) == IF h = <<>> THEN <<entry>> ELSE <<entry, h[1]>>

\* the handler of request p returns err and the values session, token, sub
Return(p, call, err, session, token, sub) ==
    /\ pc' = [pc EXCEPT ![p] = "idle"]
    /\ local' = [local EXCEPT ![p] = NoLocal]
    /\ hist' = Remember(hist, [call EXCEPT !.t1 = now, !.err = err, !.session = session,
                                           !.token = token, !.sub = sub])

\* ------------------------------------------------ UserPersistRepository
\* CreateSession, lines 97-100: creation time if not provided, update time
StampSession(session, t) ==
    [session EXCEPT !.CreatedAt = IF @ = ZeroTime THEN t ELSE @,
                    !.UpdatedAt = t]

\* (faulty variant) the TTL is the lifetime of the session, not twice it
SessionTTL_NotDoubled(session, t) == session.ExpiresAt - t

\* CreateSession, line 103
SessionTTL(session, t) == (session.ExpiresAt - t) * 2

\* (faulty variant) a zero TTL passes
AlreadyExpired_ZeroPasses(ttl) == ttl < 0

\* CreateSession, line 104
AlreadyExpired(ttl) == ttl <= 0

\* CreateSession, lines 110-117
SessionFields(session) ==
    [f \in FieldNames |->
        CASE f = "user_id" -> session.UserID
          [] f = "user_agent" -> session.UserAgent
          [] f = "ip" -> session.IP
          [] f = "expires_at" -> FormatRFC3339(session.ExpiresAt)
          [] f = "created_at" -> FormatRFC3339(session.CreatedAt)
          [] f = "updated_at" -> FormatRFC3339(session.UpdatedAt)]

\* what the caller of CreateSession makes of its result: CreateSession itself
\* returns (session, err); Login (auth_service.go 72-81) turns an error into its
\* own and otherwise answers with the token it minted.
ErrCreateSession == "failed to create session"

ReturnFromCreateSession(p, call, session, err) ==
    IF call.op = "Login"
    THEN IF err # NoErr
         THEN /\ Return(p, call, ErrCreateSession, NoSession, NoToken, NoUser)
              /\ UNCHANGED held
         ELSE /\ Return(p, call, NoErr, session, call.token, NoUser)
              /\ held' = call.token
    ELSE /\ Return(p, call, err, session, NoToken, NoUser)
         /\ UNCHANGED held

\* what a hash write did to the record that was there
Wrote(before, after) ==
    IF before = EmptyHash THEN "new" ELSE IF before = after THEN "same" ELSE "over"

\* CreateSession up to and including the hash write (lines 97-121), entered by
\* request p for the call `call` with the session `in`; ok: the HSet succeeds
EnterCreateSession(p, call, in, ok) ==
    LET session == StampSession(in, now)
        ttl == SessionTTL(session, now)
        key == UserSessionRK(session.UserID)
    IN  IF AlreadyExpired(ttl)
        THEN /\ ReturnFromCreateSession(p, call, session, ErrAlreadyExpired)
             /\ UNCHANGED <<hash, expiry, activeUsers>>
        ELSE IF ~ok
        THEN /\ ReturnFromCreateSession(p, call, session, ErrStoreSession)
             /\ UNCHANGED <<hash, expiry, activeUsers>>
        ELSE /\ hash' = RedisHSet(hash, key, SessionFields(session))
             /\ pc' = [pc EXCEPT ![p] = "cs_expire"]
             /\ local' = [local EXCEPT ![p] =
                    [call |-> [call EXCEPT !.wrote = Wrote(hash[key], hash'[key])],
                     session |-> session, ttl |-> ttl, data |-> EmptyHash]]
             /\ UNCHANGED <<expiry, activeUsers, held, hist>>

\* the sessions a caller passes to CreateSession
OpaqueToken(name) == [alg |-> "opaque", key |-> name, claims |-> [c \in {} |-> NoText]]

SessionInputs ==
    {UserSession("", u, OpaqueToken("tokA"), "ua1", "ip1", now + d, ZeroTime, ZeroTime)
        : u \in UserIds, d \in {0, MaxOffset}}
    \cup
    {UserSession("", "u1", OpaqueToken("tokB"), "ua2", "ip2", now + d, now - 1, ZeroTime)
        : d \in 0..MaxOffset}

CreateSession(p, in) ==
    /\ Idle(p)
    /\ \E ok \in Outcomes :
         EnterCreateSession(p, Call("CreateSession", in.UserID, NoToken),
                            in, ok)
    /\ UNCHANGED <<now, procs, faulty>>

\* (faulty variant) the hash written is deleted again when a later call fails
LeftBehind_RolledBack(h, key) == RedisDelHash(h, key)

\* CreateSession, lines 125 and 133: the error return after the hash write; the
\* hash written at line 119 is left as it is
LeftBehind(h, key) == h

\* CreateSession, lines 123-126: the expiry of the key
CreateSessionExpire(p) ==
    /\ p \in procs /\ pc[p] = "cs_expire"
    /\ \E ok \in Outcomes :
         LET session == local[p].session
             key == UserSessionRK(session.UserID)
         IN  IF ok
             THEN /\ expiry' = RedisExpire(expiry, hash, key, local[p].ttl, now)
                  /\ pc' = [pc EXCEPT ![p] = "cs_sadd"]
                  /\ UNCHANGED <<hash, local, held, hist>>
             ELSE /\ ReturnFromCreateSession(p, local[p].call, session, ErrSetExpiration)
                  /\ hash' = LeftBehind(hash, key)
                  /\ UNCHANGED expiry
    /\ UNCHANGED <<now, activeUsers, procs, faulty>>

\* CreateSession, lines 128-136: the active users set, and the return
CreateSessionSAdd(p) ==
    /\ p \in procs /\ pc[p] = "cs_sadd"
    /\ \E ok \in Outcomes :
         LET session == local[p].session
             key == UserSessionRK(session.UserID)
         IN  IF ok
             THEN /\ activeUsers' = RedisSAdd(activeUsers, session.UserID)
                  /\ ReturnFromCreateSession(p, local[p].call, session, NoErr)
                  /\ UNCHANGED hash
             ELSE /\ ReturnFromCreateSession(p, local[p].call, session, ErrActiveUsers)
                  /\ hash' = LeftBehind(hash, key)
                  /\ UNCHANGED activeUsers
    /\ UNCHANGED <<now, expiry, procs, faulty>>

\* GetSession, lines 153-169: the session rebuilt from the hash; a field that is
\* missing or does not parse leaves the zero value
Field(data, f, none) == IF f \in DOMAIN data THEN data[f] ELSE none

\* (faulty variant) a field that does not parse gives a time that never passes
ParsedOrZero_Forever(data, f) ==
    LET r == ParseRFC3339(Field(data, f, NoText)) IN IF r.ok THEN r.t ELSE MaxTime + 1

\* GetSession, lines 160-169: time.Parse of a field; on an error the field of the
\* session keeps its zero value
ParsedOrZero(data, f) ==
    LET r == ParseRFC3339(Field(data, f, NoText)) IN IF r.ok THEN r.t ELSE ZeroTime

RebuildSession(userId, data) ==
    UserSession("", userId, NoToken, Field(data, "user_agent", ""), Field(data, "ip", ""),
                ParsedOrZero(data, "expires_at"), ParsedOrZero(data, "created_at"),
                ParsedOrZero(data, "updated_at"))

\* (faulty variant) a session passes for a tick after its expiresAt
HasExpired_GraceTick(session, t) == t > session.ExpiresAt + 1

\* GetSession, line 172
HasExpired(session, t) == t > session.ExpiresAt

\* (faulty variant) the failure of the delete is returned to the caller
ErrDeleteExpired == "failed to delete expired session"
ExpiredResult_Propagates(ok) == IF ok THEN ErrSessionExpired ELSE ErrDeleteExpired

\* GetSession, lines 174-177: the error returned for an expired session, the
\* delete having succeeded (ok) or failed
ExpiredResult(ok) == ErrSessionExpired

\* GetSession, lines 140-169: the hash read
GetSession(p, userId) ==
    /\ Idle(p)
    /\ \E ok \in Outcomes :
         LET call == Call("GetSession", userId, NoToken)
             data == RedisHGetAll(hash, UserSessionRK(userId))
         IN  IF ~ok
             THEN Return(p, call, ErrGetSessionData, NoSession, NoToken, NoUser)
             ELSE IF DOMAIN data = {}
             THEN Return(p, call, ErrSessionNotFound, NoSession, NoToken, NoUser)
             ELSE /\ pc' = [pc EXCEPT ![p] = "gs_check"]
                  /\ local' = [local EXCEPT ![p] =
                        [call |-> call, session |-> RebuildSession(userId, data),
                         ttl |-> 0, data |-> data]]
                  /\ UNCHANGED hist
    /\ UNCHANGED <<now, hash, expiry, activeUsers, held, procs, faulty>>

\* GetSession, lines 171-180: the expiry check, the delete of an expired key
GetSessionCheck(p) ==
    /\ p \in procs /\ pc[p] = "gs_check"
    /\ \E ok \in Outcomes :
         LET session == local[p].session
             key == UserSessionRK(local[p].call.user)
         IN  IF HasExpired(session, now)
             THEN /\ hash' = IF ok THEN RedisDelHash(hash, key) ELSE hash
                  /\ expiry' = IF ok THEN RedisDelExpiry(expiry, key) ELSE expiry
                  /\ Return(p, [local[p].call EXCEPT !.wrote = IF ok THEN "del" ELSE "del failed"],
                            ExpiredResult(ok), NoSession, NoToken, NoUser)
             ELSE /\ Return(p, local[p].call, NoErr, session, NoToken, NoUser)
                  /\ UNCHANGED <<hash, expiry>>
    /\ UNCHANGED <<now, activeUsers, held, procs, faulty>>

\* the clock advances; the store evicts the keys whose expiry is reached
Tick ==
    /\ now < MaxTime
    /\ now' = now + 1
    /\ hash' = [k \in SessionKeys |->
                    IF k \in Evicted(expiry, now + 1) THEN EmptyHash ELSE hash[k]]
    /\ expiry' = [k \in SessionKeys |->
                    IF k \in Evicted(expiry, now + 1) THEN NoTTL ELSE expiry[k]]
    /\ UNCHANGED <<activeUsers, pc, local, held, hist, procs, faulty>>

\* ------------------------------------------------------------------- JWT
\* A signed token: the algorithm of its header, the secret its signature was
\* made with, and its claims.  Numeric dates are whole Unix seconds.
JWTSecret == "secret"            \* AuthServiceConfig.JWTSecret
JwtScretKey == "secret"          \* EnvConfig.JwtScretKey, the same deployment secret
HMACMethods == {"HS256", "HS384", "HS512"}

Unix(t) == t \div TicksPerSec

ErrMalformed == "token contains an invalid number of segments"
ErrSigningMethod == "unexpected signing method"
ErrSignature == "signature is invalid"
ErrJwtExpired == "Token is expired"
ErrInvalidExpiration == "invalid token expiration"
ErrTokenExpired == "token expired"
ErrInvalidUserID == "invalid user ID in token"
ErrInvalidToken == "invalid token"

\* (faulty variant) the second of expiry still passes
ClaimsExpired_OffByOne(claims, t) == "exp" \in DOMAIN claims /\ ~(Unix(t) <= claims.exp)

\* MapClaims.Valid of jwt/v4: an "exp" claim, when present, must lie after the
\* current Unix second
ClaimsExpired(claims, t) == "exp" \in DOMAIN claims /\ ~(Unix(t) < claims.exp)

\* (faulty variant) the key function hands out the secret whatever the method
KeyFunc_NoMethodCheck(tok, secret) == [err |-> NoErr, key |-> secret]

\* the key function ValidateToken passes to jwt.Parse (auth_service.go 92-99):
\* the signing method is checked first, the secret is supplied only after
NoKey == "no key"

KeyFunc(tok, secret) ==
    IF tok.alg \notin HMACMethods THEN [err |-> ErrSigningMethod, key |-> NoKey]
    ELSE [err |-> NoErr, key |-> secret]

\* (faulty variant) every signature verifies
SignatureValid_Always(tok, key) == TRUE

\* Method.Verify: the signature is the one made with this key
SignatureValid(tok, key) == tok.key = key

\* jwt.Parse with the key function of ValidateToken: the segments, the key
\* function (signing method check, then the secret), the signature, the claims
JwtParse(tok, secret, t) ==
    IF tok.alg = "" THEN ErrMalformed
    ELSE LET k == KeyFunc(tok, secret)
         IN  IF k.err # NoErr THEN k.err
             ELSE IF ~SignatureValid(tok, k.key) THEN ErrSignature
             ELSE IF ClaimsExpired(tok.claims, t) THEN ErrJwtExpired
             ELSE NoErr

\* utils.GenerateToken (generate_token.go 10-26)
GenerateTokenClaims(username, id, t) ==
    [userId |-> id, username |-> username, exp |-> Unix(t + Week)]

UtilsGenerateToken(username, id, t) ==
    [alg |-> "HS256", key |-> JwtScretKey, claims |-> GenerateTokenClaims(username, id, t)]

\* AuthServiceImpl.ValidateToken (auth_service.go 90-127): the error and the user id
ExplicitlyExpired(exp, t) == exp * TicksPerSec < t

SubjectClaim(claims) == "sub" \in DOMAIN claims

AuthValidateToken(tok, t) ==
    LET err == JwtParse(tok, JWTSecret, t)
        claims == tok.claims
    IN  IF err # NoErr THEN [err |-> err, sub |-> NoUser]
        ELSE IF "exp" \notin DOMAIN claims THEN [err |-> ErrInvalidExpiration, sub |-> NoUser]
        ELSE IF ExplicitlyExpired(claims.exp, t) THEN [err |-> ErrTokenExpired, sub |-> NoUser]
        ELSE IF ~SubjectClaim(claims) THEN [err |-> ErrInvalidUserID, sub |-> NoUser]
        ELSE [err |-> NoErr, sub |-> claims.sub]

\* utils.ValidateToken (unnamed/part_000 10-30): the error and the claims
ErrFailedToParse == "failed to parse token"

UtilsValidateToken(tok, t) ==
    LET err == JwtParse(tok, JwtScretKey, t)
    IN  IF err # NoErr THEN [err |-> ErrFailedToParse, cause |-> err, claims |-> NoToken.claims]
        ELSE [err |-> NoErr, cause |-> NoErr, claims |-> tok.claims]

\* AuthServiceImpl.generateToken, called by Login: issues the token of a login,
\* subject the user id, expiring after the configured token lifetime
GenerateLoginToken(userID, t) ==
    [alg |-> "HS256", key |-> JWTSecret,
     claims |-> [sub |-> userID, exp |-> Unix(t + TokenExpiration)]]

\* what a client may present instead of the token it holds
Presented(tok) ==
    {tok,
     [tok EXCEPT !.key = "other secret"],
     [tok EXCEPT !.alg = "none", !.key = ""]}

\* ------------------------------------------------------------------ users
HashPassword(password) == <<"bcrypt", password>>
CheckPasswordHash(password, pwHash) == pwHash = HashPassword(password)

User(id, username, email, password) ==
    [ID |-> id, Username |-> username, Email |-> email, PasswordHash |-> HashPassword(password)]

Users == {User("u1", "alice", "a@x.com", "secret1"), User("u2", "bob", "b@x.com", "secret2")}
Emails == {"a@x.com", "b@x.com", "nobody@x.com"}
Passwords == {"secret1", "secret2"}

\* UserPersistRepository.GetByEmail
GetByEmail(email) == {u \in Users : u.Email = email}

ErrInvalidEmail == "invalid email"
ErrInvalidPassword == "invalid password"

\* (faulty variant) the password is not checked
CheckCredentials_NoPassword(email, password) ==
    IF GetByEmail(email) = {} THEN ErrInvalidEmail ELSE NoErr

\* Login, lines 46-55: the error of the credential check, NoErr when it passes
CheckCredentials(email, password) ==
    IF GetByEmail(email) = {} THEN ErrInvalidEmail
    ELSE IF ~CheckPasswordHash(password, (CHOOSE u \in GetByEmail(email) : TRUE).PasswordHash)
         THEN ErrInvalidPassword
    ELSE NoErr

\* (faulty variant) the session is given no lifetime
LoginSession_NoLifetime(user, token, t) ==
    UserSession("", user.ID, token, "", "", t, t, t)

\* Login, lines 63-70
LoginSession(user, token, t) ==
    UserSession("", user.ID, token, "", "", t + TokenExpiration, t, t)

\* --------------------------------------------------------- AuthServiceImpl
Login(p, email, password) ==
    /\ Idle(p)
    /\ \E ok \in Outcomes :
         LET call == Call("Login", NoUser, NoToken)
             err == CheckCredentials(email, password)
         IN  IF err # NoErr
             THEN /\ Return(p, call, err, NoSession, NoToken, NoUser)
                  /\ UNCHANGED <<hash, expiry, activeUsers, held>>
             ELSE LET user == CHOOSE u \in GetByEmail(email) : TRUE
                      token == GenerateLoginToken(user.ID, now)
                  IN  EnterCreateSession(p, [call EXCEPT !.user = user.ID, !.token = token],
                                         LoginSession(user, token, now), ok)
    /\ UNCHANGED <<now, procs, faulty>>

\* (faulty variant) a token is accepted only while its user has a session stored
ValidateToken_NeedsSession(p, tok) ==
    /\ Idle(p)
    /\ LET r == AuthValidateToken(tok, now)
           gone == r.err = NoErr /\ hash[UserSessionRK(r.sub)] = EmptyHash
       IN  Return(p, Call("ValidateToken", NoUser, tok),
                  IF gone THEN ErrSessionNotFound ELSE r.err, NoSession, tok,
                  IF gone THEN NoUser ELSE r.sub)
    /\ UNCHANGED <<now, hash, expiry, activeUsers, held, procs, faulty>>

ValidateToken(p, tok) ==
    /\ Idle(p)
    /\ LET r == AuthValidateToken(tok, now)
       IN  Return(p, Call("ValidateToken", NoUser, tok),
                  r.err, NoSession, tok, r.sub)
    /\ UNCHANGED <<now, hash, expiry, activeUsers, held, procs, faulty>>

\* (faulty variant) the stub clears the sessions before it gives up
ImplementMe_ClearsSessions(p, op) ==
    /\ Return(p, Call(op, NoUser, NoToken), "implement me", NoSession, NoToken, NoUser)
    /\ hash' = [k \in SessionKeys |-> EmptyHash]
    /\ UNCHANGED <<expiry, activeUsers, held>>

\* the body of the four stubs: panic("implement me")
ErrImplementMe == "implement me"

ImplementMe(p, op) ==
    /\ Return(p, Call(op, NoUser, NoToken), ErrImplementMe, NoSession, NoToken, NoUser)
    /\ UNCHANGED <<hash, expiry, activeUsers, held>>

SessionIDs == {"s1", ""}
NewPasswords == {"secret3", ""}

Logout(p, sessionID) ==
    /\ Idle(p)
    /\ ImplementMe(p, "Logout")
    /\ UNCHANGED <<now, procs, faulty>>

RefreshSession(p, sessionID) ==
    /\ Idle(p)
    /\ ImplementMe(p, "RefreshSession")
    /\ UNCHANGED <<now, procs, faulty>>

RequestPasswordReset(p, email) ==
    /\ Idle(p)
    /\ ImplementMe(p, "RequestPasswordReset")
    /\ UNCHANGED <<now, procs, faulty>>

ResetPassword(p, token, newPassword) ==
    /\ Idle(p)
    /\ ImplementMe(p, "ResetPassword")
    /\ UNCHANGED <<now, procs, faulty>>

\* ------------------------------------------------------------------ utils
GenerateToken(p, user) ==
    /\ Idle(p)
    /\ LET tok == UtilsGenerateToken(user.Username, user.ID, now)
       IN  /\ Return(p, Call("GenerateToken", user.ID, NoToken),
                     NoErr, NoSession, tok, NoUser)
           /\ held' = tok
    /\ UNCHANGED <<now, hash, expiry, activeUsers, procs, faulty>>

\* utils.ValidateToken: the caller receives the claims, not a user id
ParseToken(p, tok) ==
    /\ Idle(p)
    /\ LET r == UtilsValidateToken(tok, now)
       IN  Return(p, Call("utils.ValidateToken", NoUser, tok), r.err, NoSession,
                  [tok EXCEPT !.claims = r.claims], NoUser)
    /\ UNCHANGED <<now, hash, expiry, activeUsers, held, procs, faulty>>

\* ------------------------------------------------------------ the system
InitStore ==
    /\ now = StartTime
    /\ hash = [k \in SessionKeys |-> EmptyHash]
    /\ expiry = [k \in SessionKeys |-> NoTTL]
    /\ activeUsers = {}
    /\ pc = [p \in Procs |-> "idle"]
    /\ local = [p \in Procs |-> NoLocal]
    /\ held = NoToken
    /\ hist = <<>>

\* one request at a time, the store never fails
Init == InitStore /\ procs = {"r1"} /\ faulty = FALSE

\* one request at a time, calls to the store may fail
InitFaulty == InitStore /\ procs = {"r1"} /\ faulty = TRUE

\* two requests at a time, the store never fails
InitConcurrent == InitStore /\ procs = Procs /\ faulty = FALSE

\* the steps of the session store that every caller goes through
StoreSteps ==
    \/ \E p \in Procs : CreateSessionExpire(p)
    \/ \E p \in Procs : CreateSessionSAdd(p)
    \/ \E p \in Procs : \E u \in UserIds : GetSession(p, u)
    \/ \E p \in Procs : GetSessionCheck(p)
    \/ Tick

\* the session store under its callers
NextStore ==
    \/ \E p \in Procs : \E in \in SessionInputs : CreateSession(p, in)
    \/ StoreSteps

\* the authentication service over the session store
NextAuth ==
    \/ \E p \in Procs : \E e \in Emails : \E pw \in Passwords : Login(p, e, pw)
    \/ \E p \in Procs : \E tok \in Presented(held) : ValidateToken(p, tok)
    \/ StoreSteps

\* logins over the session store
NextLogin ==
    \/ \E p \in Procs : \E e \in Emails : \E pw \in Passwords : Login(p, e, pw)
    \/ StoreSteps

\* the token helpers
NextTokens ==
    \/ \E p \in Procs : \E u \in Users : GenerateToken(p, u)
    \/ \E p \in Procs : \E tok \in Presented(held) : ValidateToken(p, tok)
    \/ \E p \in Procs : \E tok \in Presented(held) : ParseToken(p, tok)
    \/ Tick

\* the session store with every request about the one user
OneUser == {"u1"}
OneUserInputs == {in \in SessionInputs : in.UserID \in OneUser}

NextOneUser ==
    \/ \E p \in Procs : \E in \in OneUserInputs : CreateSession(p, in)
    \/ \E p \in Procs : CreateSessionExpire(p)
    \/ \E p \in Procs : CreateSessionSAdd(p)
    \/ \E p \in Procs : \E u \in OneUser : GetSession(p, u)
    \/ \E p \in Procs : GetSessionCheck(p)
    \/ Tick

\* two requests about the one user, a long-lived and a short-lived session
ConcurrentInputs ==
    {UserSession("", "u1", OpaqueToken("tokA"), "ua1", "ip1", now + MaxOffset, ZeroTime, ZeroTime),
     UserSession("", "u1", OpaqueToken("tokB"), "ua2", "ip2", now + 1, ZeroTime, ZeroTime)}

NextConcurrent ==
    \/ \E p \in Procs : \E in \in ConcurrentInputs : CreateSession(p, in)
    \/ \E p \in Procs : CreateSessionExpire(p)
    \/ \E p \in Procs : CreateSessionSAdd(p)
    \/ \E p \in Procs : \E u \in OneUser : GetSession(p, u)
    \/ \E p \in Procs : GetSessionCheck(p)
    \/ Tick

\* every operation of the authentication service
NextService ==
    \/ \E p \in Procs : \E e \in Emails : \E pw \in Passwords : Login(p, e, pw)
    \/ \E p \in Procs : \E tok \in Presented(held) : ValidateToken(p, tok)
    \/ \E p \in Procs : \E sid \in SessionIDs : Logout(p, sid)
    \/ \E p \in Procs : \E sid \in SessionIDs : RefreshSession(p, sid)
    \/ \E p \in Procs : \E e \in Emails : RequestPasswordReset(p, e)
    \/ \E p \in Procs : \E tok \in Presented(held) : \E pw \in NewPasswords :
         ResetPassword(p, tok, pw)
    \/ StoreSteps

\* login and token validation, and a short-lived session stored for the user
\* beside them
ShortSessions ==
    {UserSession("", "u1", OpaqueToken("tokB"), "ua2", "ip2", now + 1, ZeroTime, ZeroTime)}

NextAuthSessions ==
    \/ \E p \in Procs : \E e \in Emails : \E pw \in Passwords : Login(p, e, pw)
    \/ \E p \in Procs : \E tok \in Presented(held) : ValidateToken(p, tok)
    \/ \E p \in Procs : \E in \in ShortSessions : CreateSession(p, in)
    \/ StoreSteps

Spec == Init /\ [][NextStore]_vars
SpecFaulty == InitFaulty /\ [][NextOneUser]_vars
SpecConcurrent == InitConcurrent /\ [][NextConcurrent]_vars
SpecService == Init /\ [][NextService]_vars
SpecAuthSessions == Init /\ [][NextAuthSessions]_vars
SpecAuth == Init /\ [][NextAuth]_vars
SpecLoginFaulty == InitFaulty /\ [][NextLogin]_vars
SpecTokens == Init /\ [][NextTokens]_vars

\* ------------------------------------------------------------ properties
Last == hist[1]
Previous == hist[2]

\* the fields of a session at the precision of a stored session: timestamps in
\* whole seconds
SameSecond(t1, t2) == Unix(t1) = Unix(t2)

\* C1 (as claimed): whenever CreateSession(s) succeeded and the next call is a
\* GetSession for the same user made while the clock is not past s.ExpiresAt, the
\* GetSession succeeds and returns userId, userAgent, ip and the token reference of
\* s, and its three timestamps to the second.
C1_RoundTrip ==
    (/\ Len(hist) = 2
     /\ Previous.op = "CreateSession" /\ Previous.err = NoErr
     /\ Last.op = "GetSession" /\ Last.user = Previous.user
     /\ Last.t1 <= Previous.session.ExpiresAt)
    => /\ Last.err = NoErr
       /\ Last.session.UserID = Previous.session.UserID
       /\ Last.session.UserAgent = Previous.session.UserAgent
       /\ Last.session.IP = Previous.session.IP
       /\ Last.session.TokenHash = Previous.session.TokenHash
       /\ SameSecond(Last.session.ExpiresAt, Previous.session.ExpiresAt)
       /\ SameSecond(Last.session.CreatedAt, Previous.session.CreatedAt)
       /\ SameSecond(Last.session.UpdatedAt, Previous.session.UpdatedAt)

\* the same without the token reference: still refuted, by a session that expires
\* within the second of the lookup
C1_RoundTripButToken ==
    (/\ Len(hist) = 2
     /\ Previous.op = "CreateSession" /\ Previous.err = NoErr
     /\ Last.op = "GetSession" /\ Last.user = Previous.user
     /\ Last.t1 <= Previous.session.ExpiresAt)
    => /\ Last.err = NoErr
       /\ Last.session.UserID = Previous.session.UserID
       /\ Last.session.UserAgent = Previous.session.UserAgent
       /\ Last.session.IP = Previous.session.IP
       /\ SameSecond(Last.session.ExpiresAt, Previous.session.ExpiresAt)
       /\ SameSecond(Last.session.CreatedAt, Previous.session.CreatedAt)
       /\ SameSecond(Last.session.UpdatedAt, Previous.session.UpdatedAt)

\* the expiresAt of a stored session record, as written in its hash
StoredExpiresAt(data) == data.expires_at * TicksPerSec

GetSessionReturns(p) == pc[p] = "gs_check" /\ pc'[p] = "idle"

\* C2: a GetSession that finds a session stored whose expiresAt has elapsed goes
\* on to the expiry check and fails with the session-expired error; and when the
\* call after a GetSession that failed so is a GetSession for the same user, it
\* fails with the session-not-found error.
C2_Next ==
    (/\ Len(hist) = 2
     /\ Previous.op = "GetSession" /\ Previous.err = ErrSessionExpired
     /\ Last.op = "GetSession" /\ Last.user = Previous.user)
    => Last.err = ErrSessionNotFound

C2_Step ==
    /\ \A p \in Procs : \A u \in UserIds :
         LET data == hash[UserSessionRK(u)]
         IN  (GetSession(p, u) /\ data # EmptyHash /\ StoredExpiresAt(data) < now)
             => pc'[p] = "gs_check" /\ local'[p].data = data
    /\ \A p \in Procs :
         (GetSessionReturns(p) /\ StoredExpiresAt(local[p].data) < now)
         => hist'[1].op = "GetSession" /\ hist'[1].err = ErrSessionExpired
    /\ C2_Next /\ C2_Next'

C2_ExpiredThenNotFound == [][C2_Step]_vars

C2_Witness ==
    /\ Len(hist) = 2
    /\ Previous.op = "GetSession" /\ Previous.err = ErrSessionExpired
    /\ Last.op = "GetSession" /\ Last.user = Previous.user
    /\ Last.err = ErrSessionNotFound

\* C3: every session key holds at most one record, that of its user; once a
\* CreateSession has succeeded, and until the next call, the key holds exactly the
\* fields of that call (or nothing any more), also when the call replaced an
\* earlier record; and a
\* GetSession that follows it and succeeds returns the fields of that call alone.
C3_SecondOverwrites ==
    /\ \A u \in UserIds :
         LET data == hash[UserSessionRK(u)]
         IN  data # EmptyHash => DOMAIN data = FieldNames /\ data.user_id = u
    /\ (/\ Len(hist) >= 1 /\ Last.op = "CreateSession" /\ Last.err = NoErr
        /\ \A p \in Procs : pc[p] = "idle")
       => hash[UserSessionRK(Last.user)] \in {EmptyHash, SessionFields(Last.session)}
    /\ (/\ Len(hist) = 2
        /\ Previous.op = "CreateSession" /\ Previous.err = NoErr
        /\ Last.op = "GetSession" /\ Last.user = Previous.user /\ Last.err = NoErr)
       => /\ Last.session.UserID = Previous.session.UserID
          /\ Last.session.UserAgent = Previous.session.UserAgent
          /\ Last.session.IP = Previous.session.IP
          /\ Last.session.ExpiresAt = Unix(Previous.session.ExpiresAt) * TicksPerSec
          /\ Last.session.CreatedAt = Unix(Previous.session.CreatedAt) * TicksPerSec
          /\ Last.session.UpdatedAt = Unix(Previous.session.UpdatedAt) * TicksPerSec

\* the second of two successful CreateSession calls for a user replaced the record
\* of the first, and the GetSession after it succeeded
C3_Witness ==
    /\ Len(hist) = 2
    /\ Previous.op = "CreateSession" /\ Previous.err = NoErr /\ Previous.wrote = "over"
    /\ Last.op = "GetSession" /\ Last.user = Previous.user /\ Last.err = NoErr

\* C4: a CreateSession called with expiresAt <= now returns at once with the
\* already-expired error and leaves the hashes, the expiries and the active users
\* set as they were.
C4_Step ==
    \A p \in Procs : \A in \in SessionInputs :
        (CreateSession(p, in) /\ in.ExpiresAt <= now)
        => /\ pc'[p] = "idle"
           /\ hist'[1].op = "CreateSession" /\ hist'[1].err = ErrAlreadyExpired
           /\ UNCHANGED store

C4_ExpiredWritesNothing == [][C4_Step]_vars

C4_Witness ==
    /\ Len(hist) >= 1
    /\ Last.op = "CreateSession" /\ Last.err = ErrAlreadyExpired
    /\ activeUsers # {}
    /\ \E k \in SessionKeys : hash[k] # EmptyHash /\ expiry[k] # NoTTL

\* the instant a token's expiration claim names
TokenExpiresAt(tok) == tok.claims.exp * TicksPerSec

ExpiredTokenErrors == {ErrJwtExpired, ErrTokenExpired}
CorrectlySigned(tok) == tok.alg \in HMACMethods /\ tok.key = JWTSecret

\* C5 (as claimed): a token issued by GenerateToken for user u, validated by
\* ValidateToken under the same secret before its lifetime has passed, is accepted
\* and u is returned.
C5_IssuedTokenValidates ==
    (/\ Len(hist) = 2
     /\ Previous.op = "GenerateToken"
     /\ Last.op = "ValidateToken" /\ Last.token = Previous.token
     /\ Last.t1 < Previous.t1 + Week)
    => Last.err = NoErr /\ Last.sub = Previous.user

ValidatedElapsed ==
    /\ Len(hist) >= 1
    /\ Last.op = "ValidateToken"
    /\ "exp" \in DOMAIN Last.token.claims
    /\ Last.t1 >= TokenExpiresAt(Last.token)

\* C6 (as claimed): a token validated at or after the instant of its expiration
\* claim fails with the expired-token error, whatever its signature.
C6_ElapsedAlwaysExpiredError == ValidatedElapsed => Last.err \in ExpiredTokenErrors

\* C6 (amended): a token validated at or after the instant of its expiration claim
\* is never accepted and yields no user id; the error is the expired-token error
\* when the token is correctly signed.
C6_ElapsedNeverValid ==
    ValidatedElapsed
    => /\ Last.err # NoErr /\ Last.sub = NoUser
       /\ CorrectlySigned(Last.token) => Last.err \in ExpiredTokenErrors

\* an elapsed token was refused as expired, and its copy under another signature
\* was refused for the signature
C6_Witness ==
    /\ Len(hist) = 2
    /\ ValidatedElapsed /\ CorrectlySigned(Last.token) /\ Last.err = ErrJwtExpired
    /\ Previous.op = "ValidateToken" /\ Previous.token.claims = Last.token.claims
    /\ Previous.t1 >= TokenExpiresAt(Previous.token) /\ Previous.err = ErrSignature

\* the credentials are those of an existing user
Correct(email, password) ==
    \E u \in Users : u.Email = email /\ u.PasswordHash = HashPassword(password)

CredentialErrors == {ErrInvalidEmail, ErrInvalidPassword}

LoginSucceeded(call) == call.op = "Login" /\ call.err = NoErr

\* C7: a Login with the credentials of an existing user goes on to persist a
\* session for that user, and (the store not failing) returns a token; validated
\* before its expiration claim the token yields that user's id; and a GetSession
\* for the user made directly afterwards, the clock still where it stood when
\* Login was called, returns a session of that user that has not expired.
C7_State ==
    /\ (Len(hist) >= 1 /\ Last.op = "Login" /\ Last.err \notin CredentialErrors)
       => /\ Last.err = NoErr
          /\ Last.token # NoToken
    /\ (/\ Len(hist) = 2 /\ LoginSucceeded(Previous)
        /\ Last.op = "ValidateToken" /\ Last.token = Previous.token
        /\ Last.t1 < TokenExpiresAt(Previous.token))
       => Last.err = NoErr /\ Last.sub = Previous.user
    /\ (/\ Len(hist) = 2 /\ LoginSucceeded(Previous)
        /\ Last.op = "GetSession" /\ Last.user = Previous.user
        /\ Last.t1 = Previous.session.CreatedAt)
       => /\ Last.err = NoErr
          /\ Last.session.UserID = Previous.user
          /\ Last.session.ExpiresAt >= Last.t1

C7_Step ==
    /\ \A p \in Procs : \A e \in Emails : \A pw \in Passwords :
         (Login(p, e, pw) /\ Correct(e, pw))
         => /\ pc'[p] = "cs_expire"
            /\ \E u \in Users : u.Email = e /\ local'[p].call.user = u.ID
                                          /\ local'[p].session.UserID = u.ID
    /\ C7_State /\ C7_State'

C8_Step ==
    \A p \in Procs : \A e \in Emails : \A pw \in Passwords :
        (Login(p, e, pw) /\ ~Correct(e, pw))
        => /\ pc'[p] = "idle"
           /\ hist'[1].op = "Login" /\ hist'[1].err \in CredentialErrors
           /\ hist'[1].token = NoToken
           /\ UNCHANGED store

C8_FailedLoginWritesNothing == [][C8_Step]_vars

C8_Witness ==
    /\ Len(hist) >= 1
    /\ Last.op = "Login" /\ Last.err = ErrInvalidPassword
    /\ activeUsers # {}
    /\ \E k \in SessionKeys : hash[k] # EmptyHash

\* C9 (as claimed): when Login fails because the session could not be persisted,
\* it returns the session-persist error and no token, and a GetSession for the
\* user that follows does not return the session this Login wrote.
C9_FailedLoginLeavesNoSession ==
    /\ (Len(hist) >= 1 /\ Last.op = "Login" /\ Last.err \notin CredentialErrors
        /\ Last.err # NoErr)
       => Last.err = ErrCreateSession /\ Last.token = NoToken
    /\ (/\ Len(hist) = 2
        /\ Previous.op = "Login" /\ Previous.err = ErrCreateSession
        /\ Previous.wrote # "none"
        /\ Last.op = "GetSession" /\ Last.user = Previous.user)
       => Last.err # NoErr

\* C10 (as claimed): a Login that fails the credential check returns the error
\* that every other failing pair of email and password returns, be the email
\* unknown or the password wrong.
C10_SameCredentialError ==
    (Len(hist) >= 1 /\ Last.op = "Login" /\ Last.err \in CredentialErrors)
    => \A e \in Emails : \A pw \in Passwords :
           ~Correct(e, pw) => CheckCredentials(e, pw) = Last.err

\* a token whose signature was made with another secret than the configured one
ForeignSecrets == {"other secret", "a third secret"}
SignedWithOtherSecret(tok) == tok.alg \in HMACMethods /\ tok.key # JWTSecret

\* C11: a token of an HMAC algorithm signed with a secret other than the
\* configured one fails validation with the signature error and yields no user
\* id, whatever its claims (expired or not, with or without a subject); so for
\* the ValidateToken calls made, and so for every such copy of the token the
\* client holds, under AuthServiceImpl.ValidateToken and utils.ValidateToken alike.
C11_OtherSecretSignatureError ==
    /\ (Len(hist) >= 1 /\ Last.op = "ValidateToken" /\ SignedWithOtherSecret(Last.token))
       => Last.err = ErrSignature /\ Last.sub = NoUser
    /\ \A tok \in Presented(held) : \A alg \in HMACMethods : \A k \in ForeignSecrets :
         LET forged == [tok EXCEPT !.alg = alg, !.key = k]
         IN  /\ AuthValidateToken(forged, now) = [err |-> ErrSignature, sub |-> NoUser]
             /\ UtilsValidateToken(forged, now).err = ErrFailedToParse
             /\ UtilsValidateToken(forged, now).cause = ErrSignature
             /\ UtilsValidateToken(forged, now).claims = NoToken.claims

\* a token of a successful login was presented under another secret once its
\* expiration claim had elapsed, and was refused for its signature
C11_Witness ==
    /\ Len(hist) >= 1 /\ Last.op = "ValidateToken"
    /\ SignedWithOtherSecret(Last.token) /\ ValidatedElapsed
    /\ "sub" \in DOMAIN Last.token.claims
    /\ Last.err = ErrSignature

\* algorithms jwt/v4 knows that are not of the HMAC family
NonMACMethods == {"none", "RS256"}

\* C12: a token whose declared algorithm is not of the HMAC family is refused
\* with the signing-method error; the key function returns that error without
\* handing out the secret, and the outcome does not depend on the signature (it
\* is the same for a signature that the secret would verify).
C12_MethodCheckedFirst ==
    /\ (Len(hist) >= 1 /\ Last.op = "ValidateToken"
        /\ Last.token.alg \notin HMACMethods \cup {""})
       => Last.err = ErrSigningMethod /\ Last.sub = NoUser
    /\ \A tok \in Presented(held) : \A alg \in NonMACMethods :
       \A k \in ForeignSecrets \cup {JWTSecret, ""} :
         LET forged == [tok EXCEPT !.alg = alg, !.key = k]
         IN  /\ KeyFunc(forged, JWTSecret) = [err |-> ErrSigningMethod, key |-> NoKey]
             /\ AuthValidateToken(forged, now) = [err |-> ErrSigningMethod, sub |-> NoUser]
             /\ UtilsValidateToken(forged, now).cause = ErrSigningMethod

\* the token of a login, its algorithm altered, was refused for the algorithm
C12_Witness ==
    /\ Len(hist) >= 1 /\ Last.op = "ValidateToken"
    /\ Last.token.alg \in NonMACMethods /\ "sub" \in DOMAIN Last.token.claims
    /\ Last.err = ErrSigningMethod

\* C13: the last store call of CreateSession, when it succeeds, leaves the user
\* in the active users set, so that every user of a CreateSession that succeeded
\* is a member; no step takes a member out, and the expiry check of GetSession,
\* which deletes the key of an expired session, leaves the set as it was: the
\* user of a session that GetSession found expired and deleted is still a member.
C13_State ==
    /\ (Len(hist) >= 1 /\ Last.op = "CreateSession" /\ Last.err = NoErr)
       => Last.user \in activeUsers
    /\ (Len(hist) >= 1 /\ Last.op = "GetSession" /\ Last.err = ErrSessionExpired)
       => Last.user \in activeUsers

C13_Step ==
    /\ \A p \in Procs :
         (CreateSessionSAdd(p) /\ hist'[1].err = NoErr)
         => local[p].session.UserID \in activeUsers'
    /\ \A p \in Procs : GetSessionCheck(p) => UNCHANGED activeUsers
    /\ activeUsers \subseteq activeUsers'
    /\ C13_State /\ C13_State'

C13_MemberAfterExpiry == [][C13_Step]_vars

\* GetSession found the session of a user expired and deleted it; the user is
\* a member of the set and has no session
C13_Witness ==
    /\ Len(hist) >= 1
    /\ Last.op = "GetSession" /\ Last.err = ErrSessionExpired /\ Last.wrote = "del"
    /\ hash[UserSessionRK(Last.user)] = EmptyHash
    /\ Last.user \in activeUsers

StubOps == {"Logout", "RefreshSession", "RequestPasswordReset", "ResetPassword"}

StubOutcome(p, op) ==
    /\ pc'[p] = "idle"
    /\ hist'[1].op = op /\ hist'[1].err = ErrImplementMe
    /\ hist'[1].token = NoToken /\ hist'[1].session = NoSession
    /\ UNCHANGED store

\* C14: Logout, RefreshSession, RequestPasswordReset and ResetPassword, whatever
\* their arguments and whatever the sessions stored, end at once in the
\* "implement me" failure, return nothing, and leave every session hash, every
\* expiry and the active users set as they were.
C14_Step ==
    \A p \in Procs :
        /\ \A sid \in SessionIDs : Logout(p, sid) => StubOutcome(p, "Logout")
        /\ \A sid \in SessionIDs : RefreshSession(p, sid) => StubOutcome(p, "RefreshSession")
        /\ \A e \in Emails : RequestPasswordReset(p, e) => StubOutcome(p, "RequestPasswordReset")
        /\ \A tok \in Presented(held) : \A pw \in NewPasswords :
             ResetPassword(p, tok, pw) => StubOutcome(p, "ResetPassword")
        /\ (pc[p] = "idle" /\ pc'[p] = "idle" /\ hist' # hist /\ hist'[1].op \in StubOps)
           => hist'[1].err = ErrImplementMe /\ UNCHANGED store

C14_StubsFailAndWriteNothing == [][C14_Step]_vars

\* a Logout after a successful Login failed, and the session of the login is
\* still stored and its user still active
C14_Witness ==
    /\ Len(hist) = 2 /\ LoginSucceeded(Previous)
    /\ Last.op = "Logout" /\ Last.err = ErrImplementMe
    /\ hash[UserSessionRK(Previous.user)] # EmptyHash
    /\ Previous.user \in activeUsers

StoreWriteErrors == {ErrStoreSession, ErrSetExpiration, ErrActiveUsers}

\* a CreateSession that wrote its hash and then failed
FailedAfterWrite(call) ==
    call.op = "CreateSession" /\ call.err # NoErr /\ call.wrote # "none"

\* the session as GetSession returns it: the token reference dropped, the
\* timestamps in whole seconds
AsStored(session) == RebuildSession(session.UserID, SessionFields(session))

\* C15: a CreateSession whose hash write succeeded and whose TTL-set or set-add
\* then failed returns that store-write error and undoes nothing: the failing
\* step leaves every hash, every expiry and the active users set as they are.
\* For a key that held no session before the call, the hash of the call is then
\* (until the next call writes) in the store, with no expiry when it was the TTL-set that failed, and a
\* GetSession for the user that follows, its read succeeding and the session not
\* expired, returns that session.
C15_State ==
    /\ (Len(hist) >= 1 /\ FailedAfterWrite(Last))
       => Last.err \in {ErrSetExpiration, ErrActiveUsers}
    /\ (/\ Len(hist) >= 1 /\ FailedAfterWrite(Last) /\ Last.wrote = "new"
        /\ \A p \in Procs : pc[p] = "idle")
       => LET key == UserSessionRK(Last.user)
          IN  IF Last.err = ErrSetExpiration
              THEN hash[key] = SessionFields(Last.session) /\ expiry[key] = NoTTL
              ELSE now <= Last.session.ExpiresAt
                   => hash[key] = SessionFields(Last.session) /\ expiry[key] # NoTTL
    /\ (/\ Len(hist) = 2 /\ FailedAfterWrite(Previous) /\ Previous.wrote = "new"
        /\ Last.op = "GetSession" /\ Last.user = Previous.user
        /\ Last.err # ErrGetSessionData
        /\ Last.t1 <= AsStored(Previous.session).ExpiresAt)
       => Last.err = NoErr /\ Last.session = AsStored(Previous.session)

C15_Step ==
    /\ \A p \in Procs :
         (pc[p] \in {"cs_expire", "cs_sadd"} /\ pc'[p] = "idle" /\ hist'[1].err # NoErr)
         => /\ hist'[1].op = "CreateSession"
            /\ hist'[1].err \in StoreWriteErrors
            /\ UNCHANGED store
    /\ C15_State /\ C15_State'

InCreateSession(p, u, pcs) ==
    p \in procs /\ pc[p] \in pcs /\ local[p].session.UserID = u

\* C16: the hash write, the TTL-set and the set-add of CreateSession are three
\* steps, each changing its own part of the store only, and other requests take
\* steps between them.  A session hash with no expiry is in the store exactly
\* while a CreateSession for the user stands between its hash write and its
\* TTL-set, and a session hash whose user is not in the active users set only
\* while one stands between its hash write and its set-add; an expiry is never
\* there without the hash.
C16_State ==
    \A u \in UserIds :
        LET key == UserSessionRK(u)
        IN  /\ (hash[key] # EmptyHash /\ expiry[key] = NoTTL)
               => \E p \in Procs : InCreateSession(p, u, {"cs_expire"})
            /\ (hash[key] # EmptyHash /\ u \notin activeUsers)
               => \E p \in Procs : InCreateSession(p, u, {"cs_expire", "cs_sadd"})
            /\ expiry[key] # NoTTL => hash[key] # EmptyHash

C16_Step ==
    /\ \A p \in Procs :
         /\ (pc[p] = "idle" /\ pc'[p] = "cs_expire")
            => UNCHANGED <<expiry, activeUsers>>
         /\ (pc[p] = "cs_expire" /\ pc'[p] = "cs_sadd")
            => UNCHANGED <<hash, activeUsers>>
         /\ (pc[p] = "cs_sadd" /\ pc'[p] = "idle")
            => UNCHANGED <<hash, expiry>>
    /\ C16_State /\ C16_State'

C16_SeparateSteps == [][C16_Step]_vars

\* a CreateSession stands between its hash write and its TTL-set: the hash has no
\* expiry and its user is not in the active users set, and another request has
\* read that hash
C16_Witness ==
    \E p, q \in Procs : \E u \in UserIds :
        /\ InCreateSession(p, u, {"cs_expire"})
        /\ hash[UserSessionRK(u)] # EmptyHash
        /\ expiry[UserSessionRK(u)] = NoTTL
        /\ u \notin activeUsers
        /\ p # q /\ pc[q] = "gs_check"
        /\ local[q].call.user = u /\ local[q].data = hash[UserSessionRK(u)]

\* the third intermediate state of C16: a CreateSession stands before its set-add,
\* its user is in the active users set already and has no session hash (the
\* other request has deleted it, or the store evicted it)
C16_SetEntryWithoutHash ==
    \E p \in Procs : \E u \in UserIds :
        /\ InCreateSession(p, u, {"cs_sadd"})
        /\ u \in activeUsers
        /\ hash[UserSessionRK(u)] = EmptyHash

\* C17: a GetSession that succeeds returns a session whose expiresAt is not
\* earlier than the time of the return; a GetSession that has read a record whose
\* expiresAt lies before the current time fails with the session-expired error
\* and returns no session.
C17_State ==
    (Len(hist) >= 1 /\ Last.op = "GetSession" /\ Last.err = NoErr)
    => Last.session.ExpiresAt >= Last.t1

C17_Step ==
    /\ \A p \in Procs :
         GetSessionReturns(p)
         => IF local[p].session.ExpiresAt < now
            THEN hist'[1].err = ErrSessionExpired /\ hist'[1].session = NoSession
            ELSE hist'[1].err = NoErr /\ hist'[1].session = local[p].session
    /\ C17_State /\ C17_State'

C17_NeverReturnsExpired == [][C17_Step]_vars

\* a GetSession returned a session at the very instant of its expiresAt, after a
\* GetSession for the user that had returned it earlier
C17_Witness ==
    /\ Len(hist) = 2
    /\ Last.op = "GetSession" /\ Last.err = NoErr /\ Last.session.ExpiresAt = Last.t1
    /\ Previous.op = "GetSession" /\ Previous.user = Last.user /\ Previous.err = NoErr
    /\ Previous.t1 < Last.t1

\* a CreateSession that succeeded with the clock standing at t0 throughout
AtomicCreate(call) ==
    call.op = "CreateSession" /\ call.err = NoErr /\ call.t1 = call.session.UpdatedAt

\* t0 + 2 * (E - t0)
EvictionTime(call) ==
    call.session.UpdatedAt + 2 * (call.session.ExpiresAt - call.session.UpdatedAt)

\* C18: after a CreateSession at t0 for a session expiring at E, and until the
\* next call writes or returns, the key is in the store with the expiry t0 + 2 * (E - t0)
\* while the clock is before that time, and is gone from then on; a GetSession for
\* the user that reads before that time finds the record, and fails with the
\* session-expired error when it checks it after E; one that reads at or after
\* that time fails with the session-not-found error.
C18_State ==
    (/\ Len(hist) >= 1 /\ AtomicCreate(Last)
     /\ \A p \in Procs : pc[p] \in {"idle", "gs_check"})
    => LET key == UserSessionRK(Last.user)
       IN  IF now < EvictionTime(Last)
           THEN hash[key] = SessionFields(Last.session) /\ expiry[key] = EvictionTime(Last)
           ELSE hash[key] = EmptyHash /\ expiry[key] = NoTTL

C18_Step ==
    /\ \A p \in Procs :
         (Len(hist) >= 1 /\ AtomicCreate(Last) /\ GetSession(p, Last.user))
         => IF now < EvictionTime(Last)
            THEN pc'[p] = "gs_check"
            ELSE pc'[p] = "idle" /\ hist'[1].err = ErrSessionNotFound
    /\ \A p \in Procs :
         (/\ Len(hist) >= 1 /\ AtomicCreate(Last)
          /\ GetSessionReturns(p) /\ local[p].call.user = Last.user
          /\ Last.session.ExpiresAt < now)
         => hist'[1].err = ErrSessionExpired
    /\ C18_State /\ C18_State'

C18_KeyOutlivesSession == [][C18_Step]_vars

\* a GetSession made after E and before t0 + 2 * (E - t0) found the session
\* expired
C18_Witness ==
    /\ Len(hist) = 2 /\ AtomicCreate(Previous)
    /\ Last.op = "GetSession" /\ Last.user = Previous.user
    /\ Previous.session.ExpiresAt < Last.t1 /\ Last.t1 < EvictionTime(Previous)
    /\ Last.err = ErrSessionExpired

\* the other case of C18: a GetSession made at or after t0 + 2 * (E - t0) found
\* no session
C18_Evicted ==
    /\ Len(hist) = 2 /\ AtomicCreate(Previous)
    /\ Last.op = "GetSession" /\ Last.user = Previous.user
    /\ Last.t1 >= EvictionTime(Previous)
    /\ Last.err = ErrSessionNotFound

\* C19: when GetSession finds the session expired and the delete of its key
\* fails, it returns the session-expired error and no session, not the failure
\* of the store, and the step leaves every hash and every expiry as they were:
\* the record is still there for the next GetSession to find.
C19_State ==
    (Len(hist) >= 1 /\ Last.op = "GetSession" /\ Last.wrote = "del failed")
    => Last.err = ErrSessionExpired /\ Last.session = NoSession

C19_Step ==
    /\ \A p \in Procs :
         (GetSessionReturns(p) /\ HasExpired(local[p].session, now))
         => /\ hist'[1].err = ErrSessionExpired
            /\ hist'[1].wrote \in {"del", "del failed"}
            /\ hist'[1].wrote = "del failed" => UNCHANGED store
            /\ hist'[1].wrote = "del"
               => hash'[UserSessionRK(local[p].call.user)] = EmptyHash
    /\ C19_State /\ C19_State'

C19_DeleteFailureNotPropagated == [][C19_Step]_vars

\* the delete of an expired session failed, and the next GetSession found the
\* session again, still expired, and deleted it
C19_Witness ==
    /\ Len(hist) = 2
    /\ Previous.op = "GetSession" /\ Previous.wrote = "del failed"
    /\ Previous.err = ErrSessionExpired
    /\ Last.op = "GetSession" /\ Last.user = Previous.user
    /\ Last.err = ErrSessionExpired /\ Last.wrote = "del"

\* C20: ValidateToken leaves every session hash, every expiry, the active users
\* set and the token the client holds as they were, and what it returns is a
\* function of the token, the secret and the clock alone: a correctly signed
\* token with a subject is accepted before its expiration claim whatever has
\* become of the session of its user.
C20_State ==
    (/\ Len(hist) >= 1 /\ Last.op = "ValidateToken"
     /\ CorrectlySigned(Last.token) /\ DOMAIN Last.token.claims = {"sub", "exp"}
     /\ Last.t1 < TokenExpiresAt(Last.token))
    => Last.err = NoErr /\ Last.sub = Last.token.claims.sub

C20_Step ==
    /\ \A p \in Procs : \A tok \in Presented(held) :
         ValidateToken(p, tok)
         => /\ UNCHANGED <<store, held>>
            /\ hist'[1].err = AuthValidateToken(tok, now).err
            /\ hist'[1].sub = AuthValidateToken(tok, now).sub
    /\ C20_State /\ C20_State'

C20_ValidateTokenReadsNoSession == [][C20_Step]_vars

\* the session of a user was found expired and deleted, and the token of the
\* user's login was accepted after that
C20_Witness ==
    /\ Len(hist) = 2
    /\ Previous.op = "GetSession" /\ Previous.err = ErrSessionExpired
    /\ Last.op = "ValidateToken" /\ Last.err = NoErr /\ Last.sub = Previous.user
    /\ hash[UserSessionRK(Last.sub)] = EmptyHash

\* C21 (as claimed): when GetSession has read an expired record of a user, and
\* by the time of its delete a CreateSession for that user has succeeded whose
\* session, not expired, is the record now stored, the delete leaves that record
\* in the store.
C21_Step ==
    \A p \in Procs :
        LET key == UserSessionRK(local[p].call.user)
        IN  (/\ GetSessionReturns(p) /\ HasExpired(local[p].session, now)
             /\ Len(hist) >= 1
             /\ Last.op = "CreateSession" /\ Last.err = NoErr
             /\ Last.user = local[p].call.user
             /\ hash[key] = SessionFields(Last.session)
             /\ local[p].data # hash[key]
             /\ now <= AsStored(Last.session).ExpiresAt)
            => hash'[key] = hash[key]

C21_StaleDeleteSparesNew == [][C21_Step]_vars

\* the TTL a CreateSession call computed: 2 * (E - t0)
ComputedTTL(call) == 2 * (call.session.ExpiresAt - call.session.UpdatedAt)

\* the key holds the fields of the session of the call, under an expiry set
\* with the TTL of that call while the call was running
FieldsAndTTLOf(call, key) ==
    /\ hash[key] = SessionFields(call.session)
    /\ expiry[key] - ComputedTTL(call) \in call.session.UpdatedAt .. call.t1

\* C22 (as claimed): when the last two calls to return are CreateSession calls
\* for one user that both succeeded, and no request is in service, the record
\* stored under the key is that of one of the two together with the TTL that
\* call computed.
C22_TTLOfStoredSession ==
    (/\ Len(hist) = 2
     /\ Last.op = "CreateSession" /\ Last.err = NoErr
     /\ Previous.op = "CreateSession" /\ Previous.err = NoErr
     /\ Last.user = Previous.user
     /\ \A p \in Procs : pc[p] = "idle"
     /\ now = Last.t1
     /\ hash[UserSessionRK(Last.user)] # EmptyHash)
    => \/ FieldsAndTTLOf(Last, UserSessionRK(Last.user))
       \/ FieldsAndTTLOf(Previous, UserSessionRK(Last.user))

\* ------------------------------------------- records of other writers
\* The store is shared: the hash GetSession reads at line 143 is whatever is
\* under the key, also a record this repository did not write.  The records
\* another client leaves under a session key: a timestamp text that does not
\* parse, a timestamp field that is missing, and a well-formed record, all with
\* an expires_at (where it has one that parses) beyond the end of the clock.
FarSeconds == MaxTime \div TicksPerSec + 1

OtherRecord(u, expiresAt, createdAt, updatedAt) ==
    [f \in FieldNames |->
        CASE f = "user_id" -> u
          [] f = "user_agent" -> "ua3"
          [] f = "ip" -> "ip3"
          [] f = "expires_at" -> expiresAt
          [] f = "created_at" -> createdAt
          [] f = "updated_at" -> updatedAt]

Without(data, f) == [g \in DOMAIN data \ {f} |-> data[g]]

OtherRecords(u) ==
    {OtherRecord(u, FarSeconds, 1, 1),
     OtherRecord(u, NoText, 1, 1),
     OtherRecord(u, FarSeconds, NoText, 1),
     OtherRecord(u, FarSeconds, 1, NoText),
     Without(OtherRecord(u, FarSeconds, 1, 1), "expires_at"),
     Without(OtherRecord(u, FarSeconds, 1, 1), "created_at")}

\* another client of the store replaces the record under a session key; the
\* new key carries no expiry
OtherClientWrites(u, fields) ==
    /\ hash[UserSessionRK(u)] # fields
    /\ hash' = [hash EXCEPT ![UserSessionRK(u)] = fields]
    /\ expiry' = RedisDelExpiry(expiry, UserSessionRK(u))
    /\ UNCHANGED <<now, activeUsers, pc, local, held, hist, procs, faulty>>

NextForeign ==
    \/ \E u \in OneUser : \E fields \in OtherRecords(u) : OtherClientWrites(u, fields)
    \/ \E p \in Procs : \E u \in OneUser : GetSession(p, u)
    \/ \E p \in Procs : GetSessionCheck(p)
    \/ Tick

\* GetSession of one user over the records of other writers: one request at a
\* time, the store never fails
SpecForeign == Init /\ [][NextForeign]_vars

TimeFields == {"expires_at", "created_at", "updated_at"}

\* time.Parse rejects the text of the field, or the field is missing
Unparseable(data, f) == ~ParseRFC3339(Field(data, f, NoText)).ok

TimeOf(session, f) ==
    CASE f = "expires_at" -> session.ExpiresAt
      [] f = "created_at" -> session.CreatedAt
      [] f = "updated_at" -> session.UpdatedAt

\* C23: GetSession does not fail on a timestamp field that does not parse: a
\* read of a non-empty hash goes on to the expiry check with every such field of
\* the session at its zero value, and the only error a read returns at once is
\* that of an empty hash; a hash whose expires_at is missing or does not parse
\* is treated as expired: the call deletes the key and returns "session has
\* expired"; a session that is returned has the zero value in every field that
\* did not parse.
C23_Step ==
    \A p \in Procs :
        LET key == UserSessionRK(local[p].call.user)
        IN  /\ (pc[p] = "idle" /\ pc'[p] = "gs_check")
                => \A f \in TimeFields :
                      Unparseable(local'[p].data, f) => TimeOf(local'[p].session, f) = ZeroTime
            /\ (Idle(p) /\ hist' # hist /\ hist'[1].op = "GetSession")
                => /\ hist'[1].err = ErrSessionNotFound
                   /\ hash[UserSessionRK(hist'[1].user)] = EmptyHash
            /\ (GetSessionReturns(p) /\ Unparseable(local[p].data, "expires_at"))
                => /\ hist'[1].err = ErrSessionExpired
                   /\ hash'[key] = EmptyHash
                   /\ expiry'[key] = NoTTL
            /\ (GetSessionReturns(p) /\ hist'[1].err = NoErr)
                => \A f \in TimeFields :
                      Unparseable(local[p].data, f) => TimeOf(hist'[1].session, f) = ZeroTime

C23_UnparseableTimeIsZero == [][C23_Step]_vars

\* C23 witness: a GetSession has answered "session has expired" and deleted the
\* key at a moment when every record with an expires_at that parses is far from
\* expired, and the next GetSession for the user has again read a record without
\* a parseable expires_at and rebuilt a session whose ExpiresAt is the zero time.
C23_Witness ==
    \E p \in Procs :
        /\ pc[p] = "gs_check"
        /\ Unparseable(local[p].data, "expires_at")
        /\ local[p].session.ExpiresAt = ZeroTime
        /\ Len(hist) >= 1
        /\ Last.op = "GetSession" /\ Last.user = local[p].call.user
        /\ Last.err = ErrSessionExpired /\ Last.wrote = "del"
        /\ Last.t1 < FarSeconds * TicksPerSec

\* C23 witness of the other half: a record whose created_at did not parse and
\* whose expires_at is ahead has been returned, CreatedAt at the zero time.
C23_ReturnedWithZeroCreatedAt ==
    /\ Len(hist) >= 1
    /\ Last.op = "GetSession" /\ Last.err = NoErr
    /\ Last.session.CreatedAt = ZeroTime
    /\ Last.session.ExpiresAt = FarSeconds * TicksPerSec
    /\ hash[UserSessionRK(Last.user)] # EmptyHash
    /\ Unparseable(hash[UserSessionRK(Last.user)], "created_at")
====
